---- MODULE Spec2Model ----
(***************************************************************************)
(* Lecture 8 notebook (src/lecture8.ipynb): the accounts table and the     *)
(* SQL cells that act on it.  One session (the notebook's connection)      *)
(* sends the statements of a cell one at a time to the database server.    *)
(*                                                                         *)
(*   durable   the committed contents of the table (what survives a crash) *)
(*   accounts  the table as the session's statements see it: durable plus  *)
(*             the uncommitted changes of the open transaction             *)
(*                                                                         *)
(* Balances are DECIMAL(10, 2); the model counts whole currency units      *)
(* (1 = 1.00), every amount of the notebook being a whole number and the   *)
(* statements only adding and subtracting.                                 *)
(*                                                                         *)
(* Two specifications:                                                     *)
(*   Spec     the cells as written, with their literal amounts; the user   *)
(*            may run any cell when no cell is running                     *)
(*   SpecGen  the transfer and deposit blocks as operations of an amount,  *)
(*            started from a populated table with any balances             *)
(***************************************************************************)
EXTENDS Integers, FiniteSets, Sequences, TLC

VARIABLES
    tableExists,         \* the relation accounts exists
    accounts,            \* rows as seen by the session (set of records)
    durable,             \* committed rows
    txn,                 \* "none" | "open" | "failed" : the session's transaction block
    cell,                \* number of the cell running or last run (0: none yet)
    pc,                  \* statement of the cell about to be sent, or "idle"
    transaction_amount,  \* DECLAREd amount of the transfer blocks (literal 100 in cell 22)
    deposit_amount,      \* DECLAREd amount of the deposit block
    account_a_balance,   \* SELECT balance INTO account_a_balance (cell 48)
    out,                 \* rows shown by the last SELECT * FROM accounts
    outcome,             \* how the last cell ended
    before,              \* rows the session saw when the cell running or last run was started
    stoppedAt,           \* statement at which the last cell was cut short, "none" if it was not
    script,              \* cells of the notebook completed in order so far, -1 when out of order
    runs,                \* balance-changing cells started since the table was populated
    stock0,              \* inventory example: the stock level before the two transactions
    stock,               \* inventory example: the stock level of the record
    spc,                 \* inventory example: next step of each transaction
    sread,               \* inventory example: the stock level each transaction read
    sreadAt,             \* inventory example: where the other transaction stood at that read
    worder,              \* inventory example: the transactions in the order of their writes
    seen,                \* second session: rows its last SELECT * FROM accounts returned
    seenAt,              \* second session: statement the notebook's session stood at then
    reads                \* second session: SELECTs it has run

\* the second example of the notebook, the inventory record of cell 15
inventory == << stock0, stock, spc, sread, sreadAt, worder >>

\* a second session connected to the same database, reading the accounts table
reader == << seen, seenAt, reads >>

vars == << tableExists, accounts, durable, txn, cell, pc, transaction_amount,
           deposit_amount, account_a_balance, out, outcome, before, stoppedAt,
           script, runs, inventory, reader >>

----------------------------------------------------------------------------
(* Bounds of the model *)

MaxRuns == 4          \* Spec: balance-changing cells run after one setup
MaxOps == 2           \* SpecGen: operations started in one behaviour
MaxBalSteps == 2      \* SpecGen: starting balances 0, 100, .., 100 * MaxBalSteps
MaxAmtSteps == 2      \* SpecGen: amounts 0, 100, .., 100 * MaxAmtSteps
MaxReads == 1         \* SpecRead: SELECTs of the second session in one behaviour
MaxStockSteps == 2    \* SpecStock: starting stock levels 0, 10, .., 10 * MaxStockSteps

(* Program constants *)

InitialA == 1000      \* ('A', 1000.00)
InitialB == 500       \* ('B', 500.00)
Amount22 == 100       \* SET balance = balance - 100 / + 100
Amount35 == 100       \* deposit_amount DECIMAL(10, 2) := 100
Amount41 == 100       \* transaction_amount DECIMAL(10, 2) := 100
Amount48 == 10000     \* transaction_amount DECIMAL(10, 2) := 10000
InitialStock == 50    \* both transactions read the stock level as 50
Decrement == 10       \* Transaction 1 decrements it by 10
Increment == 20       \* Transaction 2 increments it by 20
DecMax == 99999999    \* largest whole value of a DECIMAL(10, 2): 8 digits before the point

Null == DecMax + 1    \* SQL NULL: a value no DECIMAL(10, 2) holds

----------------------------------------------------------------------------
(* The table and the statements as functions of its rows *)

Row(id, b) == [account_id |-> id, balance |-> b]

\* variant: the second row inserted with the first row's balance
InsertedRowsTypo == { Row("A", InitialA), Row("B", InitialA) }

\* INSERT INTO accounts (account_id, balance) VALUES ('A', 1000.00), ('B', 500.00)
InsertedRows == { Row("A", InitialA), Row("B", InitialB) }

\* the balance column of the row with this account_id, NULL when there is no such row
SelectBalance(rows, id) ==
    IF \E r \in rows : r.account_id = id
    THEN (CHOOSE r \in rows : r.account_id = id).balance
    ELSE Null

\* variant: the UPDATE written without its WHERE clause
UpdateNoWhere(rows, id, delta) ==
    { [r EXCEPT !.balance = @ + delta] : r \in rows }

\* UPDATE accounts SET balance = balance + delta WHERE account_id = id
UpdateBalance(rows, id, delta) ==
    { IF r.account_id = id THEN [r EXCEPT !.balance = @ + delta] ELSE r : r \in rows }

\* the UPDATE raises "numeric field overflow": the new balance does not fit DECIMAL(10, 2)
Overflows(rows, id, delta) ==
    \E r \in rows : /\ r.account_id = id
                    /\ \/ r.balance + delta > DecMax
                       \/ r.balance + delta < -DecMax

\* variant: the check left out, the block always commits
DecideAlways(a) == "COMMIT"

\* variant: the check written with > in place of >=
DecideStrict(a) == IF a # Null /\ a > 0 THEN "COMMIT" ELSE "ROLLBACK"

\* IF account_a_balance >= 0 THEN COMMIT; ELSE ROLLBACK; (a NULL comparison is not true)
Decide(a) == IF a # Null /\ a >= 0 THEN "COMMIT" ELSE "ROLLBACK"

----------------------------------------------------------------------------
(* The notebook: its code cells in order, and the statements of each *)

SetupCell == 8
SelectCells == {20, 24, 33, 37, 40, 43, 46, 50}
TransferCells == {22, 41}
DepositCell == 35
GuardedCell == 48
NaiveCell == 10       \* the debit / credit pair of the markdown example, no BEGIN

Order == << 8, 20, 22, 24, 33, 35, 37, 40, 41, 43, 46, 48, 50 >>

Cells == { Order[i] : i \in 1..Len(Order) }

ChangingCells == TransferCells \cup {DepositCell, GuardedCell, NaiveCell}

\* the first statement a cell sends
FirstStmt(c) ==
    IF c = SetupCell THEN "drop"
    ELSE IF c \in SelectCells THEN "select"
    ELSE IF c = DepositCell THEN "deposit"
    ELSE IF c = NaiveCell THEN "debit"
    ELSE "begin"

\* the amount a cell of the notebook is written with
LiteralAmount(c) ==
    IF c = 22 THEN Amount22
    ELSE IF c = 35 THEN Amount35
    ELSE IF c = 41 THEN Amount41
    ELSE IF c = 48 THEN Amount48
    ELSE 0

\* position in the top-to-bottom run after cell c has completed
NextScript(s, c) ==
    IF c = Order[1] THEN 1
    ELSE IF s >= 1 /\ s < Len(Order) /\ c = Order[s + 1] THEN s + 1
    ELSE -1

----------------------------------------------------------------------------
(* Running a cell *)

Start(c, amt) ==
    /\ UNCHANGED << inventory, reader >>
    /\ pc = "idle"
    /\ txn = "none"
    /\ cell' = c
    /\ pc' = FirstStmt(c)
    /\ outcome' = "running"
    /\ before' = accounts
    /\ stoppedAt' = "none"
    /\ transaction_amount' = IF c \in TransferCells \cup {GuardedCell, NaiveCell}
                             THEN amt ELSE transaction_amount
    /\ deposit_amount' = IF c = DepositCell THEN amt ELSE deposit_amount
    /\ account_a_balance' = IF c = GuardedCell THEN Null ELSE account_a_balance
    /\ runs' = IF c \in ChangingCells THEN runs + 1 ELSE runs
    /\ UNCHANGED << tableExists, accounts, durable, txn, out, script >>

\* Spec: the user runs a cell of the notebook, as written
RunCell ==
    \E c \in Cells :
        /\ c \in ChangingCells => runs < MaxRuns
        /\ Start(c, LiteralAmount(c))

\* the cell's last statement has completed
Finish(how) ==
    /\ pc' = "idle"
    /\ outcome' = how
    /\ script' = NextScript(script, cell)
    /\ UNCHANGED << before, stoppedAt >>

\* variant: the setup without its DROP, an existing table kept with its rows
DropSkipped ==
    /\ UNCHANGED << inventory, reader >>
    /\ pc = "drop"
    /\ pc' = IF tableExists THEN "insert" ELSE "create"
    /\ UNCHANGED << tableExists, accounts, durable, txn, cell, transaction_amount,
                    deposit_amount, account_a_balance, out, outcome, before, stoppedAt,
                    script, runs >>

\* cell 8: DROP TABLE IF EXISTS accounts
Drop ==
    /\ UNCHANGED << inventory, reader >>
    /\ pc = "drop"
    /\ tableExists' = FALSE
    /\ accounts' = {}
    /\ durable' = {}
    /\ pc' = "create"
    /\ UNCHANGED << txn, cell, transaction_amount, deposit_amount,
                    account_a_balance, out, outcome, before, stoppedAt, script, runs >>

\* cell 8: CREATE TABLE accounts (account_id VARCHAR(10) PRIMARY KEY, balance DECIMAL(10, 2))
Create ==
    /\ UNCHANGED << inventory, reader >>
    /\ pc = "create"
    /\ ~tableExists
    /\ tableExists' = TRUE
    /\ accounts' = {}
    /\ durable' = {}
    /\ pc' = "insert"
    /\ UNCHANGED << txn, cell, transaction_amount, deposit_amount,
                    account_a_balance, out, outcome, before, stoppedAt, script, runs >>

\* cell 8: INSERT INTO accounts ... RETURNING *
Insert ==
    /\ UNCHANGED << inventory, reader >>
    /\ pc = "insert"
    /\ tableExists
    /\ accounts' = accounts \cup InsertedRows
    /\ durable' = accounts'
    /\ out' = InsertedRows
    /\ runs' = 0
    /\ Finish("ok")
    /\ UNCHANGED << tableExists, txn, cell, transaction_amount, deposit_amount,
                    account_a_balance >>

\* cells 20, 24, 33, 37, 40, 43, 46, 50: SELECT * FROM accounts
Select ==
    /\ UNCHANGED << inventory, reader >>
    /\ pc = "select"
    /\ tableExists
    /\ out' = accounts
    /\ Finish("ok")
    /\ UNCHANGED << tableExists, accounts, durable, txn, cell, transaction_amount,
                    deposit_amount, account_a_balance, runs >>

\* cells 22, 41, 48: BEGIN
Begin ==
    /\ UNCHANGED << inventory, reader >>
    /\ pc = "begin"
    /\ txn = "none"
    /\ txn' = "open"
    /\ pc' = "debit"
    /\ UNCHANGED << tableExists, accounts, durable, cell, transaction_amount,
                    deposit_amount, account_a_balance, out, outcome, before, stoppedAt,
                    script, runs >>

\* variant: the debit never reaches the committed table by itself
DebitNeverCommits ==
    /\ UNCHANGED << inventory, reader >>
    /\ pc = "debit"
    /\ tableExists
    /\ ~Overflows(accounts, "A", -transaction_amount)
    /\ accounts' = UpdateBalance(accounts, "A", -transaction_amount)
    /\ durable' = durable
    /\ pc' = "credit"
    /\ UNCHANGED << tableExists, txn, cell, transaction_amount, deposit_amount,
                    account_a_balance, out, outcome, before, stoppedAt,
                    script, runs >>

\* variant: the debit commits by itself although a transaction block is open
DebitCommitsAtOnce ==
    /\ UNCHANGED << inventory, reader >>
    /\ pc = "debit"
    /\ tableExists
    /\ ~Overflows(accounts, "A", -transaction_amount)
    /\ accounts' = UpdateBalance(accounts, "A", -transaction_amount)
    /\ durable' = accounts'
    /\ pc' = "credit"
    /\ UNCHANGED << tableExists, txn, cell, transaction_amount, deposit_amount,
                    account_a_balance, out, outcome, before, stoppedAt,
                    script, runs >>

\* UPDATE accounts SET balance = balance - transaction_amount WHERE account_id = 'A'
\* (outside a transaction block the statement commits by itself)
Debit ==
    /\ UNCHANGED << inventory, reader >>
    /\ pc = "debit"
    /\ tableExists
    /\ ~Overflows(accounts, "A", -transaction_amount)
    /\ accounts' = UpdateBalance(accounts, "A", -transaction_amount)
    /\ durable' = IF txn = "open" THEN durable ELSE accounts'
    /\ pc' = "credit"
    /\ UNCHANGED << tableExists, txn, cell, transaction_amount, deposit_amount,
                    account_a_balance, out, outcome, before, stoppedAt, script, runs >>

\* variant: the credit written with WHERE account_id = 'A'
CreditWrongAccount ==
    /\ UNCHANGED << inventory, reader >>
    /\ pc = "credit"
    /\ tableExists
    /\ ~Overflows(accounts, "A", transaction_amount)
    /\ accounts' = UpdateBalance(accounts, "A", transaction_amount)
    /\ durable' = IF txn = "open" THEN durable ELSE accounts'
    /\ pc' = IF cell = GuardedCell THEN "check"
             ELSE IF cell = NaiveCell THEN "idle" ELSE "commit"
    /\ outcome' = IF cell = NaiveCell THEN "ok" ELSE outcome
    /\ script' = IF cell = NaiveCell THEN NextScript(script, cell) ELSE script
    /\ UNCHANGED << tableExists, txn, cell, transaction_amount, deposit_amount,
                    account_a_balance, out, before, stoppedAt, runs >>

\* UPDATE accounts SET balance = balance + transaction_amount WHERE account_id = 'B'
Credit ==
    /\ UNCHANGED << inventory, reader >>
    /\ pc = "credit"
    /\ tableExists
    /\ ~Overflows(accounts, "B", transaction_amount)
    /\ accounts' = UpdateBalance(accounts, "B", transaction_amount)
    /\ durable' = IF txn = "open" THEN durable ELSE accounts'
    /\ pc' = IF cell = GuardedCell THEN "check"
             ELSE IF cell = NaiveCell THEN "idle" ELSE "commit"
    /\ outcome' = IF cell = NaiveCell THEN "ok" ELSE outcome
    /\ script' = IF cell = NaiveCell THEN NextScript(script, cell) ELSE script
    /\ UNCHANGED << tableExists, txn, cell, transaction_amount, deposit_amount,
                    account_a_balance, out, before, stoppedAt, runs >>

\* cell 48: SELECT balance INTO account_a_balance FROM accounts WHERE account_id = 'A'
Check ==
    /\ UNCHANGED << inventory, reader >>
    /\ pc = "check"
    /\ tableExists
    /\ account_a_balance' = SelectBalance(accounts, "A")
    /\ pc' = "decide"
    /\ UNCHANGED << tableExists, accounts, durable, txn, cell, transaction_amount,
                    deposit_amount, out, outcome, before, stoppedAt, script, runs >>

\* variant: the COMMIT ends the transaction without keeping its changes
CommitDiscards ==
    /\ UNCHANGED << inventory, reader >>
    /\ \/ pc = "commit"
       \/ pc = "decide" /\ Decide(account_a_balance) = "COMMIT"
    /\ txn = "open"
    /\ accounts' = durable
    /\ txn' = "none"
    /\ Finish("commit")
    /\ UNCHANGED << tableExists, durable, cell, transaction_amount, deposit_amount,
                    account_a_balance, out, runs >>

\* COMMIT: the last statement of cells 22 and 41, the THEN branch of cell 48.
\* In cells 41 and 48 the COMMIT / ROLLBACK stands inside the DO block that
\* follows BEGIN; the outputs recorded in the notebook (900 / 700 after cell 41,
\* unchanged after cell 48) show it ending that transaction, and so it does here.
Commit ==
    /\ UNCHANGED << inventory, reader >>
    /\ \/ pc = "commit"
       \/ pc = "decide" /\ Decide(account_a_balance) = "COMMIT"
    /\ txn = "open"
    /\ durable' = accounts
    /\ txn' = "none"
    /\ Finish("commit")
    /\ UNCHANGED << tableExists, accounts, cell, transaction_amount, deposit_amount,
                    account_a_balance, out, runs >>

\* variant: the ELSE branch ends the transaction keeping its changes
RollbackKeeps ==
    /\ UNCHANGED << inventory, reader >>
    /\ pc = "decide"
    /\ Decide(account_a_balance) = "ROLLBACK"
    /\ txn = "open"
    /\ durable' = accounts
    /\ txn' = "none"
    /\ Finish("rollback")
    /\ UNCHANGED << tableExists, accounts, cell, transaction_amount, deposit_amount,
                    account_a_balance, out, runs >>

\* ROLLBACK: the ELSE branch of cell 48
Rollback ==
    /\ UNCHANGED << inventory, reader >>
    /\ pc = "decide"
    /\ Decide(account_a_balance) = "ROLLBACK"
    /\ txn = "open"
    /\ accounts' = durable
    /\ txn' = "none"
    /\ Finish("rollback")
    /\ UNCHANGED << tableExists, durable, cell, transaction_amount, deposit_amount,
                    account_a_balance, out, runs >>

\* variant: the deposit written as an INSERT of a row for A with the new balance
DepositInserts ==
    /\ UNCHANGED << inventory, reader >>
    /\ pc = "deposit"
    /\ tableExists
    /\ ~Overflows(accounts, "A", deposit_amount)
    /\ accounts' = accounts \cup UpdateBalance(accounts, "A", deposit_amount)
    /\ durable' = accounts'
    /\ Finish("ok")
    /\ UNCHANGED << tableExists, txn, cell, transaction_amount, deposit_amount,
                    account_a_balance, out, runs >>

\* variant: the deposit written with WHERE account_id = 'B'
DepositWrongAccount ==
    /\ UNCHANGED << inventory, reader >>
    /\ pc = "deposit"
    /\ tableExists
    /\ ~Overflows(accounts, "B", deposit_amount)
    /\ accounts' = UpdateBalance(accounts, "B", deposit_amount)
    /\ durable' = accounts'
    /\ Finish("ok")
    /\ UNCHANGED << tableExists, txn, cell, transaction_amount, deposit_amount,
                    account_a_balance, out, runs >>

\* cell 35: DO block, UPDATE accounts SET balance = balance + deposit_amount
\* WHERE account_id = 'A'; no BEGIN, the statement commits by itself
Deposit ==
    /\ UNCHANGED << inventory, reader >>
    /\ pc = "deposit"
    /\ tableExists
    /\ ~Overflows(accounts, "A", deposit_amount)
    /\ accounts' = UpdateBalance(accounts, "A", deposit_amount)
    /\ durable' = accounts'
    /\ Finish("ok")
    /\ UNCHANGED << tableExists, txn, cell, transaction_amount, deposit_amount,
                    account_a_balance, out, runs >>

\* a statement fails: the cell stops there, and an open transaction is aborted
\* (its changes are discarded; it can no longer commit)
Fail ==
    /\ UNCHANGED << inventory, reader >>
    /\ pc' = "idle"
    /\ outcome' = "error"
    /\ stoppedAt' = pc
    /\ script' = -1
    /\ accounts' = durable
    /\ txn' = IF txn = "open" THEN "failed" ELSE txn
    /\ UNCHANGED << tableExists, durable, cell, transaction_amount, deposit_amount,
                    account_a_balance, out, before, runs >>

\* relation "accounts" does not exist
MissingTable ==
    /\ pc \in {"select", "debit", "credit", "check", "deposit", "insert"}
    /\ ~tableExists
    /\ Fail

\* numeric field overflow
NumericOverflow ==
    /\ tableExists
    /\ \/ pc = "debit" /\ Overflows(accounts, "A", -transaction_amount)
       \/ pc = "credit" /\ Overflows(accounts, "B", transaction_amount)
       \/ pc = "deposit" /\ Overflows(accounts, "A", deposit_amount)
    /\ Fail

\* a cell is run while the session's transaction is aborted: its first statement is
\* refused ("current transaction is aborted, commands ignored until end of
\* transaction block") and the cell stops
Rejected ==
    /\ UNCHANGED << inventory, reader >>
    /\ pc = "idle"
    /\ txn = "failed"
    /\ \E c \in Cells : cell' = c /\ stoppedAt' = FirstStmt(c)
    /\ outcome' = "error"
    /\ before' = accounts
    /\ script' = -1
    /\ UNCHANGED << tableExists, accounts, durable, txn, pc, transaction_amount,
                    deposit_amount, account_a_balance, out, runs >>

\* variant: after the crash the session finds the uncommitted changes in the table
CrashKeepsUncommitted ==
    /\ UNCHANGED << inventory, reader >>
    /\ pc # "idle" \/ txn # "none"
    /\ durable' = accounts
    /\ txn' = "none"
    /\ pc' = "idle"
    /\ outcome' = "crash"
    /\ stoppedAt' = pc
    /\ script' = -1
    /\ UNCHANGED << tableExists, accounts, cell, transaction_amount, deposit_amount,
                    account_a_balance, out, before, runs >>

\* the server crashes or the connection is lost: uncommitted work is gone,
\* committed work stays, the running cell does not complete
Crash ==
    /\ UNCHANGED << inventory, reader >>
    /\ pc # "idle" \/ txn # "none"
    /\ accounts' = durable
    /\ txn' = "none"
    /\ pc' = "idle"
    /\ outcome' = "crash"
    /\ stoppedAt' = pc
    /\ script' = -1
    /\ UNCHANGED << tableExists, durable, cell, transaction_amount, deposit_amount,
                    account_a_balance, out, before, runs >>

----------------------------------------------------------------------------
(* The inventory example of cell 15: two transactions update the same record.
   Each reads the stock level, computes the level it intends to set, writes it
   and commits.  Nothing isolates them: every interleaving of their steps is
   possible, the properly isolated one (the second reads after the first has
   committed) among them. *)

Txns == {1, 2}

Other(t) == IF t = 1 THEN 2 ELSE 1

\* Transaction 1 decrements by 10, Transaction 2 increments by 20
Delta(t) == IF t = 1 THEN -Decrement ELSE Increment

\* the transaction reads the stock level
StockRead(t) ==
    /\ spc[t] = "read"
    /\ sread' = [sread EXCEPT ![t] = stock]
    /\ sreadAt' = [sreadAt EXCEPT ![t] = spc[Other(t)]]
    /\ spc' = [spc EXCEPT ![t] = "write"]
    /\ UNCHANGED << stock0, stock, worder >>

\* variant: the write is UPDATE ... SET stock = stock + delta, on the current level
StockWriteCurrent(t) ==
    /\ spc[t] = "write"
    /\ stock' = stock + Delta(t)
    /\ worder' = Append(worder, t)
    /\ spc' = [spc EXCEPT ![t] = "commit"]
    /\ UNCHANGED << stock0, sread, sreadAt >>

\* the transaction sets the stock level to the level it read, changed by its amount
StockWrite(t) ==
    /\ spc[t] = "write"
    /\ stock' = sread[t] + Delta(t)
    /\ worder' = Append(worder, t)
    /\ spc' = [spc EXCEPT ![t] = "commit"]
    /\ UNCHANGED << stock0, sread, sreadAt >>

\* the transaction commits
StockCommit(t) ==
    /\ spc[t] = "commit"
    /\ spc' = [spc EXCEPT ![t] = "done"]
    /\ UNCHANGED << stock0, stock, sread, sreadAt, worder >>

\* the second session has read nothing
ReaderIdle ==
    /\ seen = {}
    /\ seenAt = "none"
    /\ reads = 0

\* the record with a stock level, the two transactions not yet started
InventoryAt(level) ==
    /\ stock0 = level
    /\ stock = level
    /\ spc = [t \in Txns |-> "read"]
    /\ sread = [t \in Txns |-> level]
    /\ sreadAt = [t \in Txns |-> "none"]
    /\ worder = << >>

----------------------------------------------------------------------------
(* Spec: the notebook as written *)

\* no accounts table yet, no cell run yet
NotebookIdle ==
    /\ tableExists = FALSE
    /\ accounts = {}
    /\ durable = {}
    /\ txn = "none"
    /\ cell = 0
    /\ pc = "idle"
    /\ transaction_amount = 0
    /\ deposit_amount = 0
    /\ account_a_balance = Null
    /\ out = {}
    /\ outcome = "none"
    /\ before = {}
    /\ stoppedAt = "none"
    /\ script = 0
    /\ runs = 0

Init == NotebookIdle /\ InventoryAt(InitialStock) /\ ReaderIdle

Next ==
    \/ RunCell
    \/ Drop
    \/ Create
    \/ Insert
    \/ Select
    \/ Begin
    \/ Debit
    \/ Credit
    \/ Check
    \/ Commit
    \/ Rollback
    \/ Deposit
    \/ MissingTable
    \/ Rejected
    \/ Crash

Spec == Init /\ [][Next]_vars

----------------------------------------------------------------------------
(* SpecGen: the blocks as operations of an amount *)

StartBalances == { 100 * k : k \in 0..MaxBalSteps } \cup { DecMax }

Amounts == { 100 * k : k \in 0..MaxAmtSteps } \cup { -100, Amount48 }

InitGen ==
    /\ tableExists = TRUE
    /\ \E a \in StartBalances, b \in StartBalances :
          accounts = { Row("A", a), Row("B", b) }
    /\ durable = accounts
    /\ txn = "none"
    /\ cell = 0
    /\ pc = "idle"
    /\ transaction_amount = 0
    /\ deposit_amount = 0
    /\ account_a_balance = Null
    /\ out = {}
    /\ outcome = "none"
    /\ before = {}
    /\ stoppedAt = "none"
    /\ script = -1
    /\ runs = 0
    /\ InventoryAt(InitialStock)
    /\ ReaderIdle

\* an operation is started with an amount
RunOp ==
    \E c \in ChangingCells, amt \in Amounts :
        /\ runs < MaxOps
        /\ Start(c, amt)

NextGen ==
    \/ RunOp
    \/ Begin
    \/ Debit
    \/ Credit
    \/ Check
    \/ Commit
    \/ Rollback
    \/ Deposit
    \/ NumericOverflow
    \/ Rejected
    \/ Crash

SpecGen == InitGen /\ [][NextGen]_vars

----------------------------------------------------------------------------
(* SpecRead: the transactional transfers of SpecGen, any amounts on any
   balances, with a second session that reads the table.  No isolation
   level is set anywhere in the notebook: the second session runs under the
   server's default, and sees what has been committed ("COMMIT: save all
   changes made during the transaction"; "intermediate states of a transaction
   are not visible to other transactions"). *)

\* variant: the second session reads the rows with the uncommitted changes
ReaderSelectDirty ==
    /\ reads < MaxReads
    /\ tableExists
    /\ seen' = accounts
    /\ seenAt' = pc
    /\ reads' = reads + 1
    /\ UNCHANGED << tableExists, accounts, durable, txn, cell, pc, transaction_amount,
                    deposit_amount, account_a_balance, out, outcome, before, stoppedAt,
                    script, runs, inventory >>

\* the second session: SELECT * FROM accounts
ReaderSelect ==
    /\ reads < MaxReads
    /\ tableExists
    /\ seen' = durable
    /\ seenAt' = pc
    /\ reads' = reads + 1
    /\ UNCHANGED << tableExists, accounts, durable, txn, cell, pc, transaction_amount,
                    deposit_amount, account_a_balance, out, outcome, before, stoppedAt,
                    script, runs, inventory >>

\* a transactional transfer (cell 22, 41 or 48) is started with an amount
RunTransfer ==
    \E c \in TransferCells \cup {GuardedCell}, amt \in Amounts :
        /\ runs < MaxOps
        /\ Start(c, amt)

NextRead ==
    \/ RunTransfer
    \/ Begin
    \/ Debit
    \/ Credit
    \/ Check
    \/ Commit
    \/ Rollback
    \/ NumericOverflow
    \/ Rejected
    \/ Crash
    \/ ReaderSelect

SpecRead == InitGen /\ [][NextRead]_vars

----------------------------------------------------------------------------
(* SpecStock: the two transactions of the inventory example *)

notebook == << tableExists, accounts, durable, txn, cell, pc, transaction_amount,
               deposit_amount, account_a_balance, out, outcome, before, stoppedAt,
               script, runs, reader >>

StockLevels == { 10 * k : k \in 0..MaxStockSteps } \cup { InitialStock }

InitStock ==
    /\ NotebookIdle
    /\ ReaderIdle
    /\ \E level \in StockLevels : InventoryAt(level)

NextStock ==
    \/ \E t \in Txns : StockRead(t) /\ UNCHANGED notebook
    \/ \E t \in Txns : StockWrite(t) /\ UNCHANGED notebook
    \/ \E t \in Txns : StockCommit(t) /\ UNCHANGED notebook

SpecStock == InitStock /\ [][NextStock]_vars

----------------------------------------------------------------------------
(* Vocabulary of the properties *)

\* the table holding exactly the rows ('A', a) and ('B', b)
State(a, b) == { Row("A", a), Row("B", b) }

Total(rows) == SelectBalance(rows, "A") + SelectBalance(rows, "B")

HasBoth(rows) == { r.account_id : r \in rows } = {"A", "B"} /\ Cardinality(rows) = 2

NonNegative(rows) == \A r \in rows : r.balance >= 0

\* the rows with the debit on A and the credit on B both applied
Transferred(rows, amt) ==
    { Row(r.account_id, IF r.account_id = "A" THEN r.balance - amt
                        ELSE IF r.account_id = "B" THEN r.balance + amt
                        ELSE r.balance) : r \in rows }

\* the cells that run their transfer between BEGIN and COMMIT / ROLLBACK
TxnCells == TransferCells \cup {GuardedCell}

\* the cell has run to its COMMIT or ROLLBACK
Ended(c) == cell = c /\ pc = "idle" /\ outcome \in {"commit", "rollback"}

----------------------------------------------------------------------------
(* C1: when the guarded transfer (cell 48) is run with an amount that exceeds
   A's balance, the session's and the committed balances of A and B after the
   transaction are exactly the balances before BEGIN, and the transaction
   ended by ROLLBACK; in the notebook run from the top, the attempted transfer
   of 10000 from A = 900, B = 700 leaves A = 900 and B = 700, which is what
   the SELECT of cell 50 then shows. *)
C1_RollbackRestores ==
    /\ ( /\ Ended(GuardedCell)
         /\ HasBoth(before)
         /\ transaction_amount > SelectBalance(before, "A") )
       => /\ outcome = "rollback"
          /\ accounts = before
          /\ durable = before
    /\ (script = 12 /\ pc = "idle")
       => /\ before = State(900, 700)
          /\ transaction_amount = 10000
          /\ accounts = State(900, 700)
          /\ durable = State(900, 700)
    /\ (script = 13 /\ pc = "idle") => out = State(900, 700)

C1_Witness ==
    /\ script = 12
    /\ pc = "idle"
    /\ outcome = "rollback"
    /\ transaction_amount > SelectBalance(before, "A")
    /\ durable = State(900, 700)

(* C2: in every state during and after a transactional transfer (cells 22, 41,
   48), whatever the amount and wherever a crash, a lost connection or a
   failing statement cuts it short, the committed table holds either the rows
   as they were at BEGIN (neither update) or those rows with both the debit on
   A and the credit on B applied; never the debit alone. *)
C2_Atomicity ==
    cell \in TxnCells =>
        \/ durable = before
        \/ durable = Transferred(before, transaction_amount)

\* a transfer cut short by a crash after its debit and before its credit
C2_Witness ==
    /\ cell \in TxnCells
    /\ outcome = "crash"
    /\ stoppedAt = "credit"
    /\ transaction_amount # 0
    /\ durable = before
    /\ durable # Transferred(before, transaction_amount)

(* C3: the guarded transfer, once its debit and credit have been applied, ends
   by COMMIT (both updates committed) exactly when A's balance after the debit
   is >= 0, and by ROLLBACK (the rows as before BEGIN) otherwise. *)
C3_Decision ==
    (Ended(GuardedCell) /\ HasBoth(before)) =>
        /\ outcome = "commit" <=> SelectBalance(before, "A") - transaction_amount >= 0
        /\ outcome = "rollback" <=> SelectBalance(before, "A") - transaction_amount < 0
        /\ outcome = "commit" => durable = Transferred(before, transaction_amount)
        /\ outcome = "rollback" => durable = before
        /\ accounts = durable /\ txn = "none"

\* committed with A left at exactly 0
C3_Witness ==
    /\ Ended(GuardedCell)
    /\ outcome = "commit"
    /\ transaction_amount > 0
    /\ SelectBalance(durable, "A") = 0

(* C4: a committed transfer of amount x (cells 22, 41, 48) leaves A's balance
   equal to its balance at BEGIN minus x and B's equal to its balance at BEGIN
   plus x; the sum of the two balances is the same after every committed and
   after every rolled-back transfer as before it. *)
C4_TransferConserves ==
    (\E c \in TxnCells : Ended(c)) /\ HasBoth(before) =>
        /\ HasBoth(durable)
        /\ Total(durable) = Total(before)
        /\ outcome = "commit" =>
              /\ SelectBalance(durable, "A") = SelectBalance(before, "A") - transaction_amount
              /\ SelectBalance(durable, "B") = SelectBalance(before, "B") + transaction_amount

C4_Witness ==
    /\ \E c \in TransferCells : Ended(c)
    /\ outcome = "commit"
    /\ transaction_amount > 0
    /\ SelectBalance(durable, "A") = SelectBalance(before, "A") - transaction_amount
    /\ SelectBalance(durable, "B") = SelectBalance(before, "B") + transaction_amount

(* C5, as claimed: after any transfer of cells 22, 41 and 48 has ended, for
   every amount and starting from non-negative balances, no committed balance
   is negative (stated here for the amounts >= 0 alone, where it already
   fails). *)
C5_NoNegativeBalance ==
    ( /\ \E c \in TxnCells : Ended(c)
      /\ HasBoth(before)
      /\ NonNegative(before)
      /\ transaction_amount >= 0 )
    => NonNegative(durable)

(* C5, amended: starting from non-negative balances and for every amount >= 0,
   no committed balance is negative after the guarded transfer of cell 48 has
   ended; after the unguarded transfers of cells 22 and 41 the committed
   balances are non-negative exactly when the amount does not exceed A's
   balance at BEGIN. *)
C5_GuardedNoNegativeBalance ==
    ( /\ HasBoth(before)
      /\ NonNegative(before)
      /\ transaction_amount >= 0 )
    => /\ Ended(GuardedCell) => NonNegative(durable)
       /\ (\E c \in TransferCells : Ended(c))
          => ( NonNegative(durable)
               <=> transaction_amount <= SelectBalance(before, "A") )

\* an unguarded transfer that committed a negative balance for A
C5_Witness ==
    /\ \E c \in TransferCells : Ended(c)
    /\ NonNegative(before)
    /\ transaction_amount > SelectBalance(before, "A")
    /\ SelectBalance(durable, "A") < 0

(* C6: when the setup cell (DROP TABLE IF EXISTS, CREATE TABLE, INSERT) has
   completed, the table exists and holds exactly the two rows A = 1000 and
   B = 500, committed; and in the run from the top the SELECT of cell 20, just
   before the first transfer, shows that same state. *)
C6_InitialState ==
    /\ (cell = SetupCell /\ pc = "idle" /\ outcome = "ok")
       => /\ tableExists
          /\ accounts = State(1000, 500)
          /\ durable = State(1000, 500)
    /\ (script = 2 /\ pc = "idle")
       => /\ out = State(1000, 500)
          /\ accounts = State(1000, 500)
          /\ durable = State(1000, 500)

\* the setup run again over a table left with other balances, then cell 20
C6_Witness ==
    /\ script = 2
    /\ pc = "idle"
    /\ runs = 0
    /\ transaction_amount > 0
    /\ out = State(1000, 500)

(* C7: the transfer of cell 22 (BEGIN, debit 100, credit 100, COMMIT) run on
   A = 1000, B = 500 commits A = 900 and B = 600; in the run from the top that
   is the state after cell 22 and the one the SELECT of cell 24 shows. *)
C7_FirstTransfer ==
    /\ (Ended(22) /\ before = State(1000, 500))
       => /\ outcome = "commit"
          /\ accounts = State(900, 600)
          /\ durable = State(900, 600)
    /\ (script = 3 /\ pc = "idle")
       => /\ before = State(1000, 500)
          /\ durable = State(900, 600)
    /\ (script = 4 /\ pc = "idle") => out = State(900, 600)

C7_Witness ==
    /\ script = 4
    /\ pc = "idle"
    /\ out = State(900, 600)
    /\ durable = State(900, 600)

(* C8: when the deposit cell (cell 35) has completed, the committed table has
   the same account ids as before it, A's balance is its old balance plus
   deposit_amount and every other row is unchanged; in the run from the top
   the deposit of 100 on A = 900, B = 600 yields A = 1000, B = 600, which the
   SELECT of cell 37 shows. *)
C8_Deposit ==
    /\ (cell = DepositCell /\ pc = "idle" /\ outcome = "ok")
       => /\ accounts = durable
          /\ { r.account_id : r \in durable } = { r.account_id : r \in before }
          /\ Cardinality(durable) = Cardinality(before)
          /\ \A r \in before : r.account_id # "A" => r \in durable
          /\ \A r \in before : r.account_id = "A" =>
                SelectBalance(durable, "A") = r.balance + deposit_amount
    /\ (script = 6 /\ pc = "idle")
       => /\ before = State(900, 600)
          /\ deposit_amount = 100
          /\ durable = State(1000, 600)
    /\ (script = 7 /\ pc = "idle") => out = State(1000, 600)

C8_Witness ==
    /\ script = 7
    /\ pc = "idle"
    /\ out = State(1000, 600)
    /\ durable = State(1000, 600)

(* C9: the second transfer (cell 41: BEGIN, DO block with debit 100, credit
   100 and COMMIT) run on A = 1000, B = 600 commits A = 900 and B = 700; in
   the run from the top that is what the SELECT of cell 43 shows and what the
   SELECT of cell 46 shows before the rollback example starts. *)
C9_SecondTransfer ==
    /\ (Ended(41) /\ before = State(1000, 600))
       => /\ outcome = "commit"
          /\ accounts = State(900, 700)
          /\ durable = State(900, 700)
    /\ (script = 9 /\ pc = "idle")
       => /\ before = State(1000, 600)
          /\ durable = State(900, 700)
    /\ (script = 10 /\ pc = "idle") => out = State(900, 700)
    /\ (script = 11 /\ pc = "idle")
       => /\ out = State(900, 700)
          /\ accounts = State(900, 700)
          /\ durable = State(900, 700)

C9_Witness ==
    /\ script = 11
    /\ pc = "idle"
    /\ cell = 46
    /\ out = State(900, 700)

(* C10: when the debit and the credit are sent as two statements outside any
   transaction (the example of cell 10) and a crash or an error stops the run
   after the debit and before the credit has taken effect, the committed table
   has A debited by the amount and B not credited: the sum of the balances has
   dropped by the amount. *)
C10_NaivePartialApply ==
    ( /\ cell = NaiveCell
      /\ pc = "idle"
      /\ outcome \in {"crash", "error"}
      /\ stoppedAt = "credit"
      /\ HasBoth(before) )
    => /\ SelectBalance(durable, "A") = SelectBalance(before, "A") - transaction_amount
       /\ SelectBalance(durable, "B") = SelectBalance(before, "B")
       /\ Total(durable) = Total(before) - transaction_amount
       /\ accounts = durable

C10_Witness ==
    /\ cell = NaiveCell
    /\ outcome = "crash"
    /\ stoppedAt = "credit"
    /\ transaction_amount > 0
    /\ Total(durable) = Total(before) - transaction_amount

(* C11: in the inventory example (stock level 50, Transaction 1 subtracting 10,
   Transaction 2 adding 20), when both transactions have read the level before
   either has written, the final level is that of the transaction that wrote
   last: 40 if Transaction 1 wrote last, 70 if Transaction 2 did; when
   Transaction 2 has read only after Transaction 1 committed, the final level
   is 60.  The same holds from every starting level s: s - 10, s + 20, and
   s + 10. *)
C11_LostUpdate ==
    (\A t \in Txns : spc[t] = "done") =>
        /\ (\A t \in Txns : sreadAt[t] \in {"read", "write"})
           => /\ stock = stock0 + Delta(worder[Len(worder)])
              /\ stock0 = 50 => /\ worder = << 2, 1 >> => stock = 40
                                /\ worder = << 1, 2 >> => stock = 70
        /\ sreadAt[2] = "done"
           => /\ stock = stock0 - 10 + 20
              /\ stock0 = 50 => stock = 60

\* both read 50, Transaction 2 wrote last: the decrement is lost
C11_Witness ==
    /\ \A t \in Txns : spc[t] = "done"
    /\ \A t \in Txns : sreadAt[t] \in {"read", "write"}
    /\ stock0 = 50
    /\ worder = << 1, 2 >>
    /\ stock = 70

\* the rows with the debit on A applied and the credit on B not
Debited(rows, amt) ==
    { Row(r.account_id, IF r.account_id = "A" THEN r.balance - amt ELSE r.balance)
      : r \in rows }

(* C12: a SELECT of a second session that runs while a transactional transfer
   (cells 22, 41, 48) is between its debit and its COMMIT / ROLLBACK returns
   the rows as they were before BEGIN: never A debited with B not yet
   credited, never the negative A balance that cell 48 then rolls back; run
   after the COMMIT it returns the rows with both updates. *)
C12_Isolation ==
    [][ (reads' = reads + 1 /\ cell \in TxnCells) =>
          /\ (txn = "open" /\ pc \in {"credit", "check", "decide", "commit"})
             => /\ seen' = before
                /\ transaction_amount # 0
                   => /\ seen' # Debited(before, transaction_amount)
                      /\ seen' # accounts
          /\ (pc = "idle" /\ outcome = "commit")
             => seen' = Transferred(before, transaction_amount)
      ]_vars

\* the second session has read while cell 48 stood before its ROLLBACK with A negative
C12_Witness ==
    /\ cell = GuardedCell
    /\ pc = "decide"
    /\ txn = "open"
    /\ seenAt = "decide"
    /\ SelectBalance(accounts, "A") < 0
    /\ SelectBalance(seen, "A") >= 0
    /\ seen = before

\* a step in which the system crashes: a cell is being run or a transaction is open,
\* and the step leaves the session idle with the outcome "crash"
CrashStep ==
    /\ pc # "idle" \/ txn # "none"
    /\ pc' = "idle"
    /\ outcome' = "crash"

\* a step in which a transfer transaction commits
CommitStep ==
    /\ cell \in TxnCells
    /\ txn = "open"
    /\ pc' = "idle"
    /\ outcome' = "commit"

(* C13: the COMMIT of a transfer transaction makes its balances the committed
   ones, and a crash, whenever it comes, leaves the committed rows as they
   were: after crash and recovery the table holds the last committed state,
   with no transaction open. *)
C13_Durability ==
    [][ /\ CommitStep => durable' = Transferred(before, transaction_amount)
        /\ CrashStep => /\ durable' = durable
                        /\ accounts' = durable
                        /\ tableExists' = tableExists
                        /\ txn' = "none"
      ]_vars

\* cell 22 has committed, the deposit has committed, and cell 41 crashed after its debit
C13_Witness ==
    /\ cell = 41
    /\ outcome = "crash"
    /\ stoppedAt = "credit"
    /\ before = State(1000, 600)
    /\ durable = State(1000, 600)
    /\ accounts = durable

\* the notebook is being run top to bottom: the setup cell has completed, the
\* cells after it have been run in order, and the cell running, if any, is the next one
OnScript ==
    /\ script >= 1
    /\ \/ pc = "idle"
       \/ script < Len(Order) /\ cell = Order[script + 1]

\* exactly one row for A and one row for B
TwoRows(rows) ==
    /\ { r.account_id : r \in rows } = {"A", "B"}
    /\ Cardinality(rows) = 2

(* C14: from the completion of the setup cell on, while the notebook is run in
   order, the accounts table (as the session sees it and as committed) holds
   exactly one row for A and one for B at every statement; the rows the
   session sees change only at a debit, credit or deposit UPDATE, or at the
   ROLLBACK of cell 48, which puts back the balances that its own debit and
   credit changed; the committed rows change only at the deposit and at the
   COMMIT of a debit and credit.  Cell by cell: a cell after the setup that
   leaves the balances other than it found them is a transfer (22, 41) or the
   deposit (35). *)
C14_RowLifecycle ==
    [][ (OnScript /\ OnScript') =>
          /\ TwoRows(accounts) /\ TwoRows(accounts')
          /\ TwoRows(durable) /\ TwoRows(durable')
          /\ tableExists /\ tableExists'
          /\ accounts' # accounts
             => \/ pc \in {"debit", "credit", "deposit"}
                \/ /\ pc = "decide"
                   /\ cell = GuardedCell
                   /\ outcome' = "rollback"
                   /\ accounts' = before
          /\ durable' # durable
             => /\ durable' = accounts'
                /\ \/ pc = "deposit"
                   \/ CommitStep /\ durable' = Transferred(before, transaction_amount)
          /\ (pc' = "idle" /\ script' >= 2 /\ accounts' # before')
             => cell' \in TransferCells \cup {DepositCell}
      ]_vars

\* cell 48, run in its place in the notebook, has rolled back: two rows, balances as before
C14_Witness ==
    /\ script = 12
    /\ cell = GuardedCell
    /\ pc = "idle"
    /\ outcome = "rollback"
    /\ TwoRows(accounts)
    /\ accounts = State(900, 700)
    /\ durable = accounts

(* C15: a cell that issues BEGIN (22, 41, 48) ends with its transaction closed
   by COMMIT or ROLLBACK whichever way its statements go, so that the session
   is never idle with a transaction still open, and the cell run after it is
   not refused. *)
C15_EveryTransactionClosed ==
    /\ pc = "idle" => txn = "none"
    /\ (pc = "idle" /\ cell \in TxnCells /\ outcome \notin {"none", "crash"})
       => outcome \in {"commit", "rollback"}
    /\ (pc = "idle" /\ cell \in SelectCells /\ outcome = "error")
       => stoppedAt = "select" /\ ~tableExists

(* C16: the setup cell, run over whatever the accounts table was before (no
   table, or a table with any balances), first leaves no table and no rows,
   and completes with A = 1000 and B = 500, committed and returned; run over
   A = 1000, B = 500 it leaves the rows as it found them; and the notebook
   run from the top, whatever was there before its setup, completes its last
   cell with A = 900 and B = 700 committed and shown. *)
C16_SetupIsReset ==
    [][ /\ (cell = SetupCell /\ pc = "drop" /\ pc' = "create")
           => /\ ~tableExists'
              /\ accounts' = {}
              /\ durable' = {}
        /\ (cell = SetupCell /\ pc = "insert" /\ pc' = "idle" /\ outcome' = "ok")
           => /\ tableExists'
              /\ accounts' = State(1000, 500)
              /\ durable' = State(1000, 500)
              /\ out' = State(1000, 500)
              /\ script' = 1
              /\ before = State(1000, 500) => accounts' = before
        /\ (script' = Len(Order) /\ pc' = "idle")
           => /\ cell' = 50
              /\ durable' = State(900, 700)
              /\ accounts' = State(900, 700)
              /\ out' = State(900, 700)
      ]_vars

\* the setup has been run over the table as a complete run of the notebook left it
C16_Witness ==
    /\ cell = SetupCell
    /\ pc = "idle"
    /\ outcome = "ok"
    /\ script = 1
    /\ before = State(900, 700)
    /\ durable = State(1000, 500)
    /\ out = durable

====
